---- MODULE Spec2Model ----
(***************************************************************************)
(* Model of src/src/cross_window_rpc.js: a caller (callCrossWindowExecutor)*)
(* posts a request to a target window, an executor                         *)
(* (setupCrossWindowExecutor) invokes the named method of its target       *)
(* object and posts the response to event.source, and a relay              *)
(* (setupCrossWindowMessageRelay) forwards requests to its relayTarget and *)
(* responses to the source it recorded for their commIndex.                *)
(*                                                                         *)
(* Deployment modelled: caller windows "A" and "B" call through the relay  *)
(* window "R", whose relayTarget is the executor window "E"; in ChainSpec  *)
(* a second relay window "S" stands between "R" and "E".  Window "X" is a  *)
(* third party posting unrelated messages on the shared transport.         *)
(* postMessage delivery is asynchronous and unordered: the messages in     *)
(* flight are a bag, and one message event is dispatched per step to all   *)
(* listeners of the destination window.                                    *)
(***************************************************************************)
EXTENDS Integers, Sequences, FiniteSets, Bags, TLC

\* ------------------------------------------------------------------ bounds

\* Calls made by all caller windows together (Spec, FairSpec).
MaxCalls == 3
\* Calls made by all caller windows together when every method may be called
\* (DispatchSpec).
MaxDispatchCalls == 1
\* Calls made by all caller windows together on a transport that carries
\* unrelated messages (StraySpec, ExecStraySpec, RelayStraySpec), and the
\* unrelated messages posted.
MaxStrayCalls == 1
MaxStray == 1
\* Calls made by all caller windows together through a chain of two relays
\* (ChainSpec).
MaxChainCalls == 2
\* Calls made by all caller windows together on two channels (SetupSpec).
MaxSetupCalls == 2
\* Calls made by all caller windows together, statement by statement
\* (StepSpec).
MaxStepCalls == 2

\* ------------------------------------------------------------------ windows

Callers == {"A", "B"}
RelayWindow == "R"
\* A second intermediate window, between the relay window and the executor.
SecondRelayWindow == "S"
RelayWindows == {RelayWindow, SecondRelayWindow}
ExecutorWindow == "E"
Stranger == "X"

\* The channel on which callers, relay and executor are set up.
Channel == "yellow-post"
OtherChannel == "other"

\* callCrossWindowExecutor's timeout argument, in clock ticks.
Timeouts == {1}

\* ------------------------------------------------------------------ values

\* JavaScript values carried in result and args.
Undefined == [type |-> "undefined", v |-> ""]
Null == [type |-> "null", v |-> ""]
Str(s) == [type |-> "string", v |-> s]
Num(s) == [type |-> "number", v |-> s]
Bool(s) == [type |-> "boolean", v |-> s]
Err(s) == [type |-> "Error", v |-> s]

\* ToBoolean: what `if ( value )` and `value ? a : b` test.
Truthy(val) ==
    CASE val.type \in {"undefined", "null"} -> FALSE
      [] val.type = "string" -> val.v # ""
      [] val.type = "number" -> val.v \notin {"0", "NaN"}
      [] val.type = "boolean" -> val.v = "true"
      [] OTHER -> TRUE

\* error.toString() of an Error object.
ErrorToString(e) == Str("Error: " \o e.v)

\* A property read `object.field` of message data: undefined when absent.
Has(data, f) == f \in DOMAIN data
Field(data, f) == IF Has(data, f) THEN data[f] ELSE Undefined

\* event.data that is a primitive (null) rather than a message object.
NullData == Null
DataTruthy(data) == IF Has(data, "type") THEN Truthy(data) ELSE TRUE

VARIABLES
    CROSS_COMM_INDEX,   \* window.CROSS_COMM_INDEX of each caller window
    calls,              \* per caller window, the calls made, in order
    inflight,           \* bag of posted messages not yet dispatched
    commIndexSources,   \* per relay window, this.commIndexSources
    jobs,               \* executor: promises returned by methods, unsettled
    strays,             \* number of unrelated messages posted so far
    relays,             \* the relay listeners registered
    pc                  \* per caller window, the statement of
                        \* callCrossWindowExecutor it is at (0: not in it)

vars == <<CROSS_COMM_INDEX, calls, inflight, commIndexSources, jobs, strays,
          relays, pc>>

\* ------------------------------------------------------------------ transport

Msg(to, source, data) == [to |-> to, source |-> source, data |-> data]
One(m) == SetToBag({m})
InFlight == BagToSet(inflight)

\* ------------------------------------------------------------------ caller

\* window.CROSS_COMM_INDEX before the first call: the property is undefined.
UndefinedIndex == -1

\* A counter that is set to 0 on every call.
LazyIndexAlways(x) == 0

\* if ( !window.CROSS_COMM_INDEX ) window.CROSS_COMM_INDEX = 0
LazyIndex(x) == IF x = UndefinedIndex \/ x = 0 THEN 0 ELSE x

\* The window a caller passes as targetWindow.
TargetOf(w) == RelayWindow

\* An argument array: a JavaScript array value.
Arr(items) == [type |-> "array", items |-> items]

\* A string naming one call, passed as the argument of echo.
CallTag(w, callIndex) == w \o ToString(callIndex)

\* args: !!argArray ? argArray : []
RequestArgs(argArray) == IF Truthy(argArray) THEN argArray ELSE Arr(<<>>)

\* The request message built by callCrossWindowExecutor.
RequestMessage(callIndex, commChannel, method, argArray) ==
    [commIndex |-> callIndex,
     commChannel |-> commChannel,
     commType |-> "request",
     method |-> method,
     args |-> RequestArgs(argArray)]

TimeoutError(timeout) ==
    Err("Remote call timeout. Got no response from called window after "
        \o ToString(timeout) \o " ms.")

NoMessageError ==
    Err("Remote call returned with success = false. No error message given.")

\* The closure state of one call, with the promise it returned.
NewCall(callIndex, commChannel, method, argArray, timeout) ==
    [callIndex |-> callIndex,
     commChannel |-> commChannel,
     method |-> method,
     argArray |-> argArray,
     timeout |-> timeout,
     remaining |-> timeout,                \* time until the timer is due
     listener |-> TRUE,                    \* addEventListener, line 179
     alreadyHandledByListener |-> FALSE,
     decayTimeout |-> TRUE,                \* setTimeout armed, line 196
     handled |-> 0,                        \* message events handleResponse saw
     settles |-> 0,                        \* resolve/reject invocations
     outcome |-> "pending",                \* state of the promise
     value |-> Undefined,
     by |-> "none",
     response |-> NullData]

\* resolve(value) / reject(value): the first invocation settles the promise.
Settle(call, outcome, value, by, response) ==
    [call EXCEPT
        !.settles = @ + 1,
        !.outcome = IF call.outcome = "pending" THEN outcome ELSE @,
        !.value = IF call.outcome = "pending" THEN value ELSE @,
        !.by = IF call.outcome = "pending" THEN by ELSE @,
        !.response = IF call.outcome = "pending" THEN response ELSE @]

\* A test that does not compare the channel.
MatchesCallAnyChannel(call, data) ==
    /\ DataTruthy(data)
    /\ Has(data, "commIndex") /\ data.commIndex = call.callIndex
    /\ Has(data, "commType") /\ data.commType = "response"
    /\ Has(data, "method") /\ data.method = call.method

\* A test that does not compare the call id.
MatchesCallAnyIndex(call, data) ==
    /\ DataTruthy(data)
    /\ Has(data, "commChannel") /\ data.commChannel = call.commChannel
    /\ Has(data, "commType") /\ data.commType = "response"
    /\ Has(data, "method") /\ data.method = call.method

\* The test of lines 153-161: the event carries the response of this call.
MatchesCall(call, data) ==
    /\ DataTruthy(data)
    /\ Has(data, "commIndex") /\ data.commIndex = call.callIndex
    /\ Has(data, "commChannel") /\ data.commChannel = call.commChannel
    /\ Has(data, "commType") /\ data.commType = "response"
    /\ Has(data, "method") /\ data.method = call.method

\* if ( response.success )
Succeeded(response) == Has(response, "success") /\ response.success

\* What the promise is resolved with on success, lines 170-171.
ResolveValue(response) ==
    IF Truthy(Field(response, "result")) THEN response.result ELSE Undefined

\* What the promise is rejected with on failure, line 173.
RejectValue(response) ==
    IF Truthy(Field(response, "result")) THEN response.result ELSE NoMessageError

\* A handleResponse that leaves the timer armed.
ClearTimeoutForgotten(armed) == armed

\* if ( decayTimeout !== null ) clearTimeout(decayTimeout)
ClearTimeout(armed) == FALSE

\* handleResponse on one message event.
handleResponse(call, data) ==
    LET seen == [call EXCEPT !.handled = @ + 1]
    IN IF MatchesCall(call, data)
       THEN LET c1 == [seen EXCEPT !.alreadyHandledByListener = TRUE,
                                   !.decayTimeout = ClearTimeout(@),
                                   !.listener = FALSE]
            IN IF Succeeded(data)
               THEN Settle(c1, "resolved", ResolveValue(data), "response", data)
               ELSE Settle(c1, "rejected", RejectValue(data), "response", data)
       ELSE seen

\* A timer callback that leaves the listener registered.
timerCallbackKeepsListener(call) ==
    Settle([call EXCEPT !.decayTimeout = FALSE],
           "rejected", TimeoutError(call.timeout), "timeout", NullData)

\* The timer callback of lines 196-200.
timerCallback(call) ==
    Settle([call EXCEPT !.listener = FALSE, !.decayTimeout = FALSE],
           "rejected", TimeoutError(call.timeout), "timeout", NullData)

\* A timer that may run as soon as it is armed.
TimerDueAtOnce(call) == call.decayTimeout

\* The timer of a call may run once `timeout` has elapsed since setTimeout.
TimerDue(call) == call.decayTimeout /\ call.remaining = 0

\* One unit of time passes for a call: its armed timer comes closer.
Elapse(call) ==
    IF call.decayTimeout /\ call.remaining > 0
    THEN [call EXCEPT !.remaining = @ - 1] ELSE call

TotalCalls == Len(calls["A"]) + Len(calls["B"])

\* callCrossWindowExecutor(targetWindow, commChannel, method, argArray, timeout)
callCrossWindowExecutor(w, commChannel, method, argArray, timeout) ==
    LET callIndex == LazyIndex(CROSS_COMM_INDEX[w])
    IN /\ CROSS_COMM_INDEX' = [CROSS_COMM_INDEX EXCEPT ![w] = callIndex + 1]
       /\ calls' = [calls EXCEPT ![w] =
              Append(@, NewCall(callIndex, commChannel, method, argArray, timeout))]
       /\ inflight' = inflight (+)
              One(Msg(TargetOf(w), w,
                      RequestMessage(callIndex, commChannel, method, argArray)))
       /\ UNCHANGED <<commIndexSources, jobs, strays, relays, pc>>

\* An order in which the request is posted before the listener is registered.
CallStepsPostFirst == <<"postMessage", "addEventListener", "setTimeout">>

\* The statements of callCrossWindowExecutor that act on the window, in the
\* order of the code: lines 179, 191 and 196.
CallSteps == <<"addEventListener", "postMessage", "setTimeout">>

\* callCrossWindowExecutor is entered: lines 141-177 take the call id and
\* create the promise and the closure of the call.
CallEnter(w, commChannel, method, argArray, timeout) ==
    LET callIndex == LazyIndex(CROSS_COMM_INDEX[w])
    IN /\ pc[w] = 0
       /\ CROSS_COMM_INDEX' = [CROSS_COMM_INDEX EXCEPT ![w] = callIndex + 1]
       /\ calls' = [calls EXCEPT ![w] =
              Append(@, [NewCall(callIndex, commChannel, method, argArray, timeout)
                            EXCEPT !.listener = FALSE, !.decayTimeout = FALSE])]
       /\ pc' = [pc EXCEPT ![w] = 1]
       /\ UNCHANGED <<inflight, commIndexSources, jobs, strays, relays>>

\* The next statement of the call window w is in runs; after the last one
\* callCrossWindowExecutor returns.
CallStatement(w) ==
    /\ pc[w] \in DOMAIN CallSteps
    /\ LET i == Len(calls[w])
           call == calls[w][i]
           statement == CallSteps[pc[w]]
       IN /\ calls' = [calls EXCEPT ![w][i] =
                 CASE statement = "addEventListener" -> [call EXCEPT !.listener = TRUE]
                   [] statement = "setTimeout" ->
                         IF ~call.alreadyHandledByListener
                         THEN [call EXCEPT !.decayTimeout = TRUE] ELSE call
                   [] OTHER -> call]
          /\ inflight' =
                 IF statement = "postMessage"
                 THEN inflight (+)
                         One(Msg(TargetOf(w), w,
                                 RequestMessage(call.callIndex, call.commChannel,
                                                call.method, call.argArray)))
                 ELSE inflight
    /\ pc' = [pc EXCEPT ![w] = IF @ = Len(CallSteps) THEN 0 ELSE @ + 1]
    /\ UNCHANGED <<CROSS_COMM_INDEX, commIndexSources, jobs, strays, relays>>

\* A message event dispatched in a caller window: every registered
\* handleResponse listener of the window sees it.  An event is dispatched
\* only between tasks, never inside a running callCrossWindowExecutor.
DeliverToCaller(m) ==
    /\ m \in InFlight
    /\ m.to \in Callers
    /\ pc[m.to] = 0
    /\ inflight' = inflight (-) One(m)
    /\ calls' = [calls EXCEPT ![m.to] =
           [i \in DOMAIN @ |->
               IF @[i].listener THEN handleResponse(@[i], m.data) ELSE @[i]]]
    /\ UNCHANGED <<CROSS_COMM_INDEX, commIndexSources, jobs, strays, relays, pc>>

\* The timer of call i of window w fires.
TimerFire(w, i) ==
    /\ i \in DOMAIN calls[w]
    /\ pc[w] = 0
    /\ TimerDue(calls[w][i])
    /\ calls' = [calls EXCEPT ![w][i] = timerCallback(@)]
    /\ UNCHANGED <<CROSS_COMM_INDEX, inflight, commIndexSources, jobs, strays, relays, pc>>

\* One unit of time passes in every window.
Tick ==
    /\ \E w \in Callers : \E i \in DOMAIN calls[w] : Elapse(calls[w][i]) # calls[w][i]
    /\ calls' = [w \in Callers |-> [i \in DOMAIN calls[w] |-> Elapse(calls[w][i])]]
    /\ UNCHANGED <<CROSS_COMM_INDEX, inflight, commIndexSources, jobs, strays, relays, pc>>

\* ------------------------------------------------------------------ executor

\* A promise a method returns, and how it will settle.
PromiseOf(how, val) == [type |-> "promise", how |-> how, with |-> val]
IsPromise(val) == val.type = "promise"

\* The properties of callTarget, the object the executor is set up with.
\*   missing   no such property
\*   nullProp  a property whose value is null
\*   count     a property whose value is a number
\*   greet, zero, noop   methods that return a string, 0, nothing
\*   echo      a method that returns its first argument
\*   boom      a method that throws
\*   later     a method that returns a promise fulfilled with its first argument
\*   fail      a method that returns a promise that is rejected
NoProperty == [kind |-> "undefined"]
callTarget(name) ==
    CASE name = "nullProp" -> [kind |-> "null"]
      [] name = "count" -> [kind |-> "value"]
      [] name = "greet" -> [kind |-> "function", does |-> "return",
                            val |-> Str("Hello Peter! How are you today?")]
      [] name = "zero" -> [kind |-> "function", does |-> "return", val |-> Num("0")]
      [] name = "noop" -> [kind |-> "function", does |-> "return", val |-> Undefined]
      [] name = "echo" -> [kind |-> "function", does |-> "echo", val |-> Undefined]
      [] name = "boom" -> [kind |-> "function", does |-> "throw",
                           val |-> Err("Can not convert name")]
      [] name = "later" -> [kind |-> "function", does |-> "echoLater", val |-> Undefined]
      [] name = "fail" -> [kind |-> "function", does |-> "return",
                           val |-> PromiseOf("reject", Err("no such name"))]
      [] OTHER -> NoProperty

\* Array.isArray(request.args) ? request.args : []
ApplyArgs(request) ==
    IF Has(request, "args") /\ request.args.type = "array"
    THEN request.args.items ELSE <<>>

\* methodOfCallTarget.apply(callTarget, args): [threw, val]
Apply(fn, args) ==
    CASE fn.does = "throw" -> [threw |-> TRUE, val |-> fn.val]
      [] fn.does = "echo" ->
            [threw |-> FALSE, val |-> IF Len(args) >= 1 THEN args[1] ELSE Undefined]
      [] fn.does = "echoLater" ->
            [threw |-> FALSE,
             val |-> PromiseOf("fulfil", IF Len(args) >= 1 THEN args[1] ELSE Undefined)]
      [] OTHER -> [threw |-> FALSE, val |-> fn.val]

\* A test that does not compare the channel.
AcceptsAnyChannel(commChannel, request) ==
    /\ DataTruthy(request)
    /\ Has(request, "commType") /\ request.commType = "request"
    /\ Has(request, "commIndex")

\* The test of lines 233-236: the event is a request this executor accepts.
Accepts(commChannel, request) ==
    /\ DataTruthy(request)
    /\ Has(request, "commChannel") /\ request.commChannel = commChannel
    /\ Has(request, "commType") /\ request.commType = "request"
    /\ Has(request, "commIndex")

\* !request.method
MethodEmpty(request) == ~Has(request, "method") \/ request.method = ""

\* The message as the README prints it, without the quotes.
DoesNotExistUnquoted(method) == Str(method \o " does not exist")

DoesNotExist(method) == Str("'" \o method \o "' does not exist")
IsNotAFunction(method) == Str("'" \o method \o "' is not a function")
MethodNameEmpty == Str("method name was empty/not given")

\* typeof methodOfCallTarget.apply: reading .apply of null throws a TypeError,
\* a value that is no function has no apply.
TypeofApply(prop) ==
    CASE prop.kind = "null" -> "TypeError"
      [] prop.kind = "function" -> "function"
      [] OTHER -> "undefined"

\* Lines 240-264, the synchronous part of messageListener:
\* [threw, success, callResult]; threw = the listener ended in an exception.
Dispatch(request) ==
    IF MethodEmpty(request)
    THEN [threw |-> FALSE, success |-> FALSE, callResult |-> MethodNameEmpty]
    ELSE LET methodOfCallTarget == callTarget(request.method)
         IN CASE methodOfCallTarget.kind = "undefined" ->
                    [threw |-> FALSE, success |-> FALSE,
                     callResult |-> DoesNotExist(request.method)]
              [] methodOfCallTarget.kind # "undefined"
                 /\ TypeofApply(methodOfCallTarget) = "TypeError" ->
                    [threw |-> TRUE, success |-> FALSE, callResult |-> Null]
              [] methodOfCallTarget.kind # "undefined"
                 /\ TypeofApply(methodOfCallTarget) = "undefined" ->
                    [threw |-> FALSE, success |-> FALSE,
                     callResult |-> IsNotAFunction(request.method)]
              [] OTHER ->
                    LET r == Apply(methodOfCallTarget, ApplyArgs(request))
                    IN IF r.threw
                       THEN [threw |-> FALSE, success |-> FALSE,
                             callResult |-> ErrorToString(r.val)]
                       ELSE [threw |-> FALSE, success |-> TRUE,
                             callResult |-> r.val]

\* The fields every response copies from the request, lines 267-273, 284-290.
ResponseBase(commChannel, request, success) ==
    LET head == [commIndex |-> request.commIndex,
                 commChannel |-> commChannel,
                 commType |-> "response",
                 success |-> success]
    IN IF Has(request, "method") THEN head @@ [method |-> request.method] ELSE head

\* result is set only when it is neither undefined nor null.
WithResult(message, result) ==
    IF result # Undefined /\ result # Null
    THEN message @@ [result |-> result] ELSE message

\* The response of the then-callback, lines 266-279.
ThenResponse(commChannel, request, success, result) ==
    WithResult(ResponseBase(commChannel, request, success), result)

\* The response of the catch-callback, lines 283-296.
CatchResponse(commChannel, request, error) ==
    WithResult(ResponseBase(commChannel, request, FALSE), error)

\* messageListener of setupCrossWindowExecutor on one message event.  A
\* callResult that is no promise is answered in the microtask that follows
\* the listener; a promise is answered when it settles (ExecutorSettle).
DeliverToExecutor(m) ==
    /\ m \in InFlight
    /\ m.to = ExecutorWindow
    /\ LET d == Dispatch(m.data)
       IN IF ~Accepts(Channel, m.data) \/ d.threw
          THEN /\ inflight' = inflight (-) One(m)
               /\ jobs' = jobs
          ELSE IF IsPromise(d.callResult)
          THEN /\ inflight' = inflight (-) One(m)
               /\ jobs' = jobs (+) One([source |-> m.source, request |-> m.data,
                                        success |-> d.success,
                                        promise |-> d.callResult])
          ELSE /\ inflight' = (inflight (-) One(m)) (+)
                      One(Msg(m.source, ExecutorWindow,
                              ThenResponse(Channel, m.data, d.success, d.callResult)))
               /\ jobs' = jobs
    /\ UNCHANGED <<CROSS_COMM_INDEX, calls, commIndexSources, strays, relays, pc>>

\* The promise a method returned settles: the then- or the catch-callback
\* posts the response.
ExecutorSettle(job) ==
    /\ job \in BagToSet(jobs)
    /\ jobs' = jobs (-) One(job)
    /\ inflight' = inflight (+)
          One(Msg(job.source, ExecutorWindow,
                  IF job.promise.how = "fulfil"
                  THEN ThenResponse(Channel, job.request, job.success, job.promise.with)
                  ELSE CatchResponse(Channel, job.request, job.promise.with)))
    /\ UNCHANGED <<CROSS_COMM_INDEX, calls, commIndexSources, strays, relays, pc>>

\* ------------------------------------------------------------------ relay

\* A key that is the channel instead of the call id.
SourceKeyChannel(message) == message.commChannel

\* message.commIndex.toString(), the key of the origin table.
SourceKey(message) == ToString(message.commIndex)

\* A relay test that does not compare the channel.
RelayAcceptsAnyChannel(commChannel, message) ==
    /\ DataTruthy(message)
    /\ Has(message, "commIndex")

\* The test of lines 316-318.
RelayAccepts(commChannel, message) ==
    /\ DataTruthy(message)
    /\ Has(message, "commChannel") /\ message.commChannel = commChannel
    /\ Has(message, "commIndex")

\* this.commIndexSources[key] = source
Record(table, key, source) == [k \in DOMAIN table \cup {key} |->
                                  IF k = key THEN source ELSE table[k]]

\* The window the relay of RelayWindow is set up with as relayTarget.
relayTarget == ExecutorWindow

\* A relay listener: the window it is registered in and the arguments of
\* setupCrossWindowMessageRelay.
Relay(win, target, commChannel) ==
    [win |-> win, relayTarget |-> target, commChannel |-> commChannel]

IsRequest(message) == Has(message, "commType") /\ message.commType = "request"
IsResponse(message) == Has(message, "commType") /\ message.commType = "response"

\* const source = this.commIndexSources[key]; "" when the table has no entry.
LookupSource(table, message) ==
    IF SourceKey(message) \in DOMAIN table THEN table[SourceKey(message)] ELSE ""

\* The messages relayMessageListener posts for one message event.
RelayPosts(relay, table, m) ==
    IF RelayAccepts(relay.commChannel, m.data) /\ IsRequest(m.data)
    THEN One(Msg(relay.relayTarget, relay.win, m.data))
    ELSE IF /\ RelayAccepts(relay.commChannel, m.data)
            /\ IsResponse(m.data)
            /\ LookupSource(table, m.data) # ""
    THEN One(Msg(LookupSource(table, m.data), relay.win, m.data))
    ELSE EmptyBag

\* A relay that deletes the entry of a response it has forwarded.
RelayTableEvicting(relay, table, m) ==
    IF RelayAccepts(relay.commChannel, m.data) /\ IsRequest(m.data)
    THEN Record(table, SourceKey(m.data), m.source)
    ELSE IF RelayAccepts(relay.commChannel, m.data) /\ IsResponse(m.data)
    THEN [k \in DOMAIN table \ {SourceKey(m.data)} |-> table[k]]
    ELSE table

\* The origin table after relayMessageListener has run for one message event.
RelayTable(relay, table, m) ==
    IF RelayAccepts(relay.commChannel, m.data) /\ IsRequest(m.data)
    THEN Record(table, SourceKey(m.data), m.source)
    ELSE table

\* The relay listeners registered in a window.
RelaysIn(w) == {relay \in relays : relay.win = w}

\* What the relay listeners of a window post for one message event, and the
\* table they leave: each listener runs in turn on window.commIndexSources.
RECURSIVE AllRelayPosts(_, _, _)
AllRelayPosts(rs, table, m) ==
    IF rs = {} THEN EmptyBag
    ELSE LET relay == CHOOSE r \in rs : TRUE
         IN RelayPosts(relay, table, m)
               (+) AllRelayPosts(rs \ {relay}, RelayTable(relay, table, m), m)

RECURSIVE AllRelayTable(_, _, _)
AllRelayTable(rs, table, m) ==
    IF rs = {} THEN table
    ELSE LET relay == CHOOSE r \in rs : TRUE
         IN AllRelayTable(rs \ {relay}, RelayTable(relay, table, m), m)

\* relayMessageListener of setupCrossWindowMessageRelay on one message event.
DeliverToRelay(m) ==
    /\ m \in InFlight
    /\ m.to \in RelayWindows
    /\ inflight' = (inflight (-) One(m))
                      (+) AllRelayPosts(RelaysIn(m.to), commIndexSources[m.to], m)
    /\ commIndexSources' = [commIndexSources EXCEPT ![m.to] =
                               AllRelayTable(RelaysIn(m.to), @, m)]
    /\ UNCHANGED <<CROSS_COMM_INDEX, calls, jobs, strays, relays, pc>>

\* setupCrossWindowMessageRelay(relayTarget, commChannel) called in window w:
\* `this` is the window, so this.commIndexSources = {} replaces the table of
\* the window, and one more listener is registered.
setupCrossWindowMessageRelay(w, target, commChannel) ==
    /\ Relay(w, target, commChannel) \notin relays
    /\ commIndexSources' = [commIndexSources EXCEPT ![w] = <<>>]
    /\ relays' = relays \cup {Relay(w, target, commChannel)}
    /\ UNCHANGED <<CROSS_COMM_INDEX, calls, inflight, jobs, strays, pc>>

\* ------------------------------------------------------------------ third party

\* Messages of other users of the shared transport: none is the response of a
\* call (another channel, a call id no caller issues, a request, another
\* method, no data).
UnissuedIndex == MaxStrayCalls + 1
StrayMessages ==
    {NullData,
     [commIndex |-> 0, commChannel |-> OtherChannel, commType |-> "response",
      method |-> "echo", success |-> TRUE, result |-> Str("stray")],
     [commIndex |-> UnissuedIndex, commChannel |-> Channel, commType |-> "response",
      method |-> "echo", success |-> TRUE, result |-> Str("stray")],
     [commIndex |-> 0, commChannel |-> Channel, commType |-> "request",
      method |-> "echo", args |-> Arr(<<>>)],
     [commIndex |-> 0, commChannel |-> Channel, commType |-> "response",
      method |-> "unrelated", success |-> TRUE, result |-> Str("stray")]}

\* Messages of other users of the shared transport that reach the executor
\* window: none is a request on the executor's channel with a call id (no
\* data, a request on another channel, a response, a request without call
\* id, a message without commType).
ExecutorStrays ==
    {NullData,
     [commIndex |-> 0, commChannel |-> OtherChannel, commType |-> "request",
      method |-> "echo", args |-> Arr(<<Str("stray")>>)],
     [commIndex |-> 0, commChannel |-> Channel, commType |-> "response",
      method |-> "echo", success |-> TRUE, result |-> Str("stray")],
     [commChannel |-> Channel, commType |-> "request",
      method |-> "echo", args |-> Arr(<<Str("stray")>>)],
     [commIndex |-> 0, commChannel |-> Channel,
      method |-> "echo", args |-> Arr(<<Str("stray")>>)]}

\* Messages of other users of the shared transport that reach the relay
\* window: a response on the relay's channel whose call id has no recorded
\* origin, a message on another channel, a message without commIndex, no
\* data.
RelayStrays ==
    {NullData,
     [commIndex |-> 0, commChannel |-> Channel, commType |-> "response",
      method |-> "echo", success |-> TRUE, result |-> Str("stray")],
     [commIndex |-> UnissuedIndex, commChannel |-> Channel, commType |-> "response",
      method |-> "echo", success |-> TRUE, result |-> Str("stray")],
     [commIndex |-> 0, commChannel |-> OtherChannel, commType |-> "request",
      method |-> "echo", args |-> Arr(<<Str("stray")>>)],
     [commIndex |-> 0, commChannel |-> OtherChannel, commType |-> "response",
      method |-> "echo", success |-> TRUE, result |-> Str("stray")],
     [commChannel |-> Channel, commType |-> "request",
      method |-> "echo", args |-> Arr(<<Str("stray")>>)]}

\* The third-party window posts a message to window w.
Stray(w, data) ==
    /\ strays < MaxStray
    /\ strays' = strays + 1
    /\ inflight' = inflight (+) One(Msg(w, Stranger, data))
    /\ UNCHANGED <<CROSS_COMM_INDEX, calls, commIndexSources, jobs, relays, pc>>

\* ------------------------------------------------------------------ specifications

\* Methods called with the tag of the call as their argument.
TaggedMethods == {"echo", "later"}
\* Every method name a caller passes.
AllMethods == {"", "missing", "nullProp", "count", "greet", "zero", "noop",
               "echo", "boom", "later", "fail"}

\* The argArray a caller passes with a method.
ArgArrayFor(w, method) ==
    IF method \in TaggedMethods
    THEN Arr(<<Str(CallTag(w, LazyIndex(CROSS_COMM_INDEX[w])))>>)
    ELSE Undefined

Init ==
    /\ CROSS_COMM_INDEX = [w \in Callers |-> UndefinedIndex]
    /\ calls = [w \in Callers |-> <<>>]
    /\ inflight = EmptyBag
    /\ commIndexSources = [w \in RelayWindows |-> <<>>]   \* this.commIndexSources = {}
    /\ jobs = EmptyBag
    /\ strays = 0
    /\ relays = {Relay(RelayWindow, relayTarget, Channel)}
    /\ pc = [w \in Callers |-> 0]

\* The steps of the windows' event loops that all specifications share.
Deliveries ==
    \/ \E m \in InFlight : DeliverToCaller(m)
    \/ \E m \in InFlight : DeliverToRelay(m)
    \/ \E m \in InFlight : DeliverToExecutor(m)
    \/ \E w \in Callers : \E i \in DOMAIN calls[w] : TimerFire(w, i)
    \/ Tick

\* Concurrent calls of both callers to echo, which returns its argument.
Next ==
    \/ \E w \in Callers, timeout \in Timeouts :
          /\ TotalCalls < MaxCalls
          /\ callCrossWindowExecutor(w, Channel, "echo", ArgArrayFor(w, "echo"), timeout)
    \/ Deliveries

Spec == Init /\ [][Next]_vars

\* Calls to every kind of property of callTarget.
DispatchNext ==
    \/ \E w \in Callers, method \in AllMethods, timeout \in Timeouts :
          /\ TotalCalls < MaxDispatchCalls
          /\ callCrossWindowExecutor(w, Channel, method, ArgArrayFor(w, method), timeout)
    \/ \E job \in BagToSet(jobs) : ExecutorSettle(job)
    \/ Deliveries

DispatchSpec == Init /\ [][DispatchNext]_vars

\* Time passes, and the event loop of a window runs a timer that is due.
\* Nothing obliges a message to be delivered or a promise to settle.
Fairness ==
    /\ WF_vars(Tick)
    /\ \A w \in Callers : \A i \in 1..MaxDispatchCalls : WF_vars(TimerFire(w, i))

FairSpec == DispatchSpec /\ Fairness

\* Calls on a transport that also carries unrelated messages.
StrayNext ==
    \/ \E w \in Callers, timeout \in Timeouts :
          /\ TotalCalls < MaxStrayCalls
          /\ callCrossWindowExecutor(w, Channel, "echo", ArgArrayFor(w, "echo"), timeout)
    \/ \E w \in Callers : \E data \in StrayMessages : Stray(w, data)
    \/ Deliveries

StraySpec == Init /\ [][StrayNext]_vars

\* Two relays chained between the callers and the executor: the relay of
\* RelayWindow knows only SecondRelayWindow, whose relay knows only the
\* executor window.
ChainInit ==
    /\ CROSS_COMM_INDEX = [w \in Callers |-> UndefinedIndex]
    /\ calls = [w \in Callers |-> <<>>]
    /\ inflight = EmptyBag
    /\ commIndexSources = [w \in RelayWindows |-> <<>>]
    /\ jobs = EmptyBag
    /\ strays = 0
    /\ relays = {Relay(RelayWindow, SecondRelayWindow, Channel),
                 Relay(SecondRelayWindow, ExecutorWindow, Channel)}
    /\ pc = [w \in Callers |-> 0]

\* Methods that return a value at once.
ChainMethods == {"echo", "zero"}

ChainNext ==
    \/ \E w \in Callers, method \in ChainMethods, timeout \in Timeouts :
          /\ TotalCalls < MaxChainCalls
          /\ callCrossWindowExecutor(w, Channel, method, ArgArrayFor(w, method), timeout)
    \/ Deliveries

ChainSpec == ChainInit /\ [][ChainNext]_vars

\* Calls on two channels through a relay window in which a second relay,
\* for the other channel, is set up at some time.
Channels == {Channel, OtherChannel}

SetupNext ==
    \/ \E w \in Callers, commChannel \in Channels, timeout \in Timeouts :
          /\ TotalCalls < MaxSetupCalls
          /\ callCrossWindowExecutor(w, commChannel, "echo", ArgArrayFor(w, "echo"), timeout)
    \/ setupCrossWindowMessageRelay(RelayWindow, relayTarget, OtherChannel)
    \/ Deliveries

SetupSpec == Init /\ [][SetupNext]_vars

\* Calls while the executor window also receives unrelated messages.
ExecStrayNext ==
    \/ \E w \in Callers, timeout \in Timeouts :
          /\ TotalCalls < MaxStrayCalls
          /\ callCrossWindowExecutor(w, Channel, "echo", ArgArrayFor(w, "echo"), timeout)
    \/ \E data \in ExecutorStrays : Stray(ExecutorWindow, data)
    \/ Deliveries

ExecStraySpec == Init /\ [][ExecStrayNext]_vars

\* Calls while the relay window also receives unrelated messages.
RelayStrayNext ==
    \/ \E w \in Callers, timeout \in Timeouts :
          /\ TotalCalls < MaxStrayCalls
          /\ callCrossWindowExecutor(w, Channel, "echo", ArgArrayFor(w, "echo"), timeout)
    \/ \E data \in RelayStrays : Stray(RelayWindow, data)
    \/ Deliveries

RelayStraySpec == Init /\ [][RelayStrayNext]_vars

\* Calls run statement by statement, while the other windows go on.
StepNext ==
    \/ \E w \in Callers, timeout \in Timeouts :
          /\ TotalCalls < MaxStepCalls
          /\ CallEnter(w, Channel, "echo", ArgArrayFor(w, "echo"), timeout)
    \/ \E w \in Callers : CallStatement(w)
    \/ Deliveries

StepSpec == Init /\ [][StepNext]_vars

\* ------------------------------------------------------------------ properties

\* The calls made so far, as <<window, position>>.
CallsMade == UNION {{<<w, i>> : i \in DOMAIN calls[w]} : w \in Callers}
CallAt(wi) == calls[wi[1]][wi[2]]

\* The message event m is dispatched in this step.
Dispatched(m) == CopiesIn(m, inflight') < CopiesIn(m, inflight)

\* The value the method named by a call produces for the call's arguments.
Produced(call) ==
    LET r == Apply(callTarget(call.method), RequestArgs(call.argArray).items)
    IN IF IsPromise(r.val) THEN r.val.with ELSE r.val

\* The method of a call returns, or returns a promise that is fulfilled.
CompletesSuccessfully(call) ==
    /\ call.method # ""
    /\ callTarget(call.method).kind = "function"
    /\ LET r == Apply(callTarget(call.method), RequestArgs(call.argArray).items)
       IN ~r.threw /\ (IsPromise(r.val) => r.val.how = "fulfil")

\* C1: a call whose method completes successfully and whose response arrives
\* resolves with exactly the value the method produced, falsy values included,
\* and with no value only when the method returned undefined or null.
C1_ResolvesWithProducedValue ==
    \A wi \in CallsMade :
        (CompletesSuccessfully(CallAt(wi)) /\ CallAt(wi).by = "response") =>
            /\ CallAt(wi).outcome = "resolved"
            /\ CallAt(wi).value =
                  IF Produced(CallAt(wi)) = Null THEN Undefined
                  ELSE Produced(CallAt(wi))

\* C2: the promise of a call is settled at most once, by the first matching
\* response or by the timeout and never by both, and once the call has
\* settled its listener handles no further message.
C2_SettledAtMostOnce ==
    [][\A wi \in CallsMade :
          /\ CallAt(wi).settles <= 1
          /\ CallAt(wi)'.settles <= 1
          /\ (CallAt(wi).settles = 1 =>
                 /\ CallAt(wi)'.handled = CallAt(wi).handled
                 /\ CallAt(wi)'.by = CallAt(wi).by
                 /\ CallAt(wi)'.outcome = CallAt(wi).outcome
                 /\ CallAt(wi)'.value = CallAt(wi).value)]_vars

\* A call that timed out while its matching response is still on its way.
C2_Witness ==
    \E wi \in CallsMade : \E m \in InFlight :
        /\ CallAt(wi).by = "timeout"
        /\ m.to = wi[1]
        /\ IsResponse(m.data)
        /\ m.data.commIndex = CallAt(wi).callIndex
        /\ m.data.commChannel = CallAt(wi).commChannel
        /\ m.data.method = CallAt(wi).method

\* C3: a call that gets no matching response is eventually rejected with the
\* timeout error, and a call is rejected with the timeout error only when
\* `timeout` has elapsed since its timer was armed.
C3_TimeoutEventuallyAndNotBefore ==
    /\ \A w \in Callers : \A i \in 1..MaxDispatchCalls :
          (i \in DOMAIN calls[w]) ~>
              /\ i \in DOMAIN calls[w]
              /\ \/ calls[w][i].by = "response"
                 \/ /\ calls[w][i].by = "timeout"
                    /\ calls[w][i].outcome = "rejected"
                    /\ calls[w][i].value = TimeoutError(calls[w][i].timeout)
    /\ [](\A wi \in CallsMade :
             CallAt(wi).by = "timeout" =>
                 /\ CallAt(wi).remaining = 0
                 /\ CallAt(wi).outcome = "rejected")

\* A call to a property the executor never answers has timed out.
C3_Witness ==
    \E wi \in CallsMade :
        /\ CallAt(wi).method = "nullProp"
        /\ CallAt(wi).by = "timeout"
        /\ CallAt(wi).outcome = "rejected"
        /\ CallAt(wi).remaining = 0

\* C4: two calls outstanding in one caller window never cross-resolve: a call
\* settles only with a response that carries its own call id and method, and
\* never with the result of the other call of its window.
C4_NoCrossResolve ==
    \A wi \in CallsMade :
        CallAt(wi).by = "response" =>
            /\ CallAt(wi).response.commIndex = CallAt(wi).callIndex
            /\ CallAt(wi).response.method = CallAt(wi).method
            /\ \A j \in DOMAIN calls[wi[1]] :
                  j # wi[2] => CallAt(wi).value # Produced(calls[wi[1]][j])

\* The second call of a window has settled with its response while the first
\* is still pending and the first call's response is still on its way.
C4_Witness ==
    \E w \in Callers : \E m \in InFlight :
        /\ Len(calls[w]) >= 2
        /\ calls[w][2].by = "response"
        /\ calls[w][2].value = Produced(calls[w][2])
        /\ calls[w][1].outcome = "pending"
        /\ m.to = w
        /\ IsResponse(m.data)
        /\ m.data.commIndex = calls[w][1].callIndex

\* The caller windows that have issued a call with this call id.
Issuers(commIndex) ==
    {w \in Callers : \E i \in DOMAIN calls[w] : calls[w][i].callIndex = commIndex}

\* The window whose call produced a response: echo returns the tag of the
\* call it was made by.
MadeBy(w, data) ==
    /\ Has(data, "result")
    /\ data.result = Str(CallTag(w, data.commIndex))

\* C5: the relay forwards the response of every call to the window the call's
\* request came from, whatever calls of other caller windows pass through the
\* relay at the same time: no response travels to a window that did not make
\* the call.
C5_ResponseReachesItsOrigin ==
    \A m \in InFlight :
        (m.source = RelayWindow /\ m.to \in Callers /\ IsResponse(m.data)) =>
            MadeBy(m.to, m.data)

\* C6: the relay forwards a request with call id A from origin O to its
\* relayTarget unchanged, and forwards a response with call id A to O unchanged,
\* whenever O is the only window that has issued call id A.
C6_RelayForwardsById ==
    [][\A m \in InFlight :
          (m.to = RelayWindow /\ Dispatched(m)) =>
              /\ IsRequest(m.data) =>
                    inflight' = (inflight (-) One(m)) (+)
                                   One(Msg(ExecutorWindow, RelayWindow, m.data))
              /\ IsResponse(m.data) =>
                    \A O \in Callers :
                        Issuers(m.data.commIndex) = {O} =>
                            inflight' = (inflight (-) One(m)) (+)
                                           One(Msg(O, RelayWindow, m.data))]_vars

\* Two calls with different call ids from different windows are in flight
\* through the relay: the response of one has been forwarded to its origin
\* while the response of the other is still on its way to the relay.
C6_Witness ==
    \E m1, m2 \in InFlight :
        /\ m1.source = RelayWindow /\ m1.to \in Callers /\ IsResponse(m1.data)
        /\ Issuers(m1.data.commIndex) = {m1.to}
        /\ m2.source = ExecutorWindow /\ m2.to = RelayWindow /\ IsResponse(m2.data)
        /\ m2.data.commIndex # m1.data.commIndex
        /\ \E O \in Callers : O # m1.to /\ MadeBy(O, m2.data)

\* The method name of a call is no property of callTarget.
NotAProperty(method) == callTarget(method).kind = "undefined"

\* The responses on their way to any window.
ResponsesInFlight == {m \in InFlight : IsResponse(m.data)}

NamesNonFunction(m) ==
    /\ m.to = ExecutorWindow
    /\ Accepts(Channel, m.data)
    /\ ~MethodEmpty(m.data)
    /\ callTarget(m.data.method).kind \in {"null", "value"}

\* C8: for every request that names a property which exists and is not
\* invocable, null included, the executor posts a failure response whose
\* result is "'<method>' is not a function".
C8_NonFunctionIsAnswered ==
    [][\A m \in InFlight :
          (NamesNonFunction(m) /\ Dispatched(m)) =>
              inflight' = (inflight (-) One(m)) (+)
                  One(Msg(m.source, ExecutorWindow,
                          [commIndex |-> m.data.commIndex,
                           commChannel |-> m.data.commChannel,
                           commType |-> "response",
                           method |-> m.data.method,
                           success |-> FALSE,
                           result |-> Str("'" \o m.data.method \o "' is not a function")]))]_vars

\* m is a response to the request req, posted to the window `to`.
AnswersTo(m, req, to) ==
    /\ m.to = to
    /\ m.source = ExecutorWindow
    /\ IsResponse(m.data)
    /\ m.data.commIndex = req.commIndex
    /\ m.data.commChannel = req.commChannel
    /\ m.data.method = req.method

\* The messages posted by the step that dispatches m.
PostedWhile(m) == inflight' (-) (inflight (-) One(m))

\* C9: for every request the executor accepts, whatever the outcome of method
\* resolution and invocation, the executor posts exactly one response, to the
\* request's event.source and with the request's commIndex, commChannel and
\* method: at once, or when the promise the method returned settles.
C9_ExactlyOneResponse ==
    [][/\ \A m \in InFlight :
             (m.to = ExecutorWindow /\ Accepts(Channel, m.data) /\ Dispatched(m)) =>
                 \/ /\ jobs' = jobs
                    /\ BagCardinality(PostedWhile(m)) = 1
                    /\ \A p \in BagToSet(PostedWhile(m)) : AnswersTo(p, m.data, m.source)
                 \/ /\ PostedWhile(m) = EmptyBag
                    /\ BagCardinality(jobs') = BagCardinality(jobs) + 1
                    /\ \A job \in BagToSet(jobs' (-) jobs) :
                          job.source = m.source /\ job.request = m.data
       /\ \A job \in BagToSet(jobs) :
             CopiesIn(job, jobs') < CopiesIn(job, jobs) =>
                 /\ BagCardinality(inflight' (-) inflight) = 1
                 /\ \A p \in BagToSet(inflight' (-) inflight) :
                       AnswersTo(p, job.request, job.source)]_vars

\* A message is the response of a call: it matches the call in commIndex,
\* commChannel and method and is a response.
IsResponseOf(call, data) ==
    /\ DataTruthy(data)
    /\ IsResponse(data)
    /\ Has(data, "commIndex") /\ data.commIndex = call.callIndex
    /\ Has(data, "commChannel") /\ data.commChannel = call.commChannel
    /\ Has(data, "method") /\ data.method = call.method

\* C10: a message that is not a response matching a pending call in all of
\* commIndex, commChannel and method leaves the call as it was: it does not
\* settle the call, remove its listener or clear or re-arm its timer.
C10_UnrelatedMessageIgnored ==
    [][\A m \in InFlight :
          (m.to \in Callers /\ Dispatched(m)) =>
              \A i \in DOMAIN calls[m.to] :
                  (calls[m.to][i].outcome = "pending" /\ ~IsResponseOf(calls[m.to][i], m.data)) =>
                      calls'[m.to][i] =
                          [calls[m.to][i] EXCEPT !.handled = calls'[m.to][i].handled]]_vars

\* A pending call whose listener has seen a message, with its own response
\* not yet delivered: the message it saw was not its response.
C10_Witness ==
    \E wi \in CallsMade :
        /\ CallAt(wi).outcome = "pending"
        /\ CallAt(wi).handled >= 1
        /\ CallAt(wi).listener
        /\ CallAt(wi).decayTimeout
        /\ strays >= 1

\* The error the method named by a response throws, or rejects its promise with.
RaisedBy(method) ==
    LET fn == callTarget(method)
    IN IF fn.does = "throw" THEN fn.val ELSE fn.val.with

\* The method throws synchronously, or returns a promise that is rejected.
Raises(method) ==
    /\ method # ""
    /\ callTarget(method).kind = "function"
    /\ \/ callTarget(method).does = "throw"
       \/ /\ callTarget(method).does = "return"
          /\ IsPromise(callTarget(method).val)
          /\ callTarget(method).val.how = "reject"

\* C11: when the executed method throws synchronously or the promise it
\* returns is rejected, the executor's response has success = false and its
\* result is the string representation of the caught error.
C11_ErrorAsString ==
    \A m \in ResponsesInFlight :
        Raises(m.data.method) =>
            /\ ~m.data.success
            /\ Has(m.data, "result")
            /\ m.data.result = Str("Error: " \o RaisedBy(m.data.method).v)

\* The hops a request of window w travels through the chain of two relays.
RequestHops(w) ==
    {<<w, RelayWindow>>, <<RelayWindow, SecondRelayWindow>>,
     <<SecondRelayWindow, ExecutorWindow>>}

\* The same hops in reverse order, which its response travels.
ResponseHops(w) == {<<hop[2], hop[1]>> : hop \in RequestHops(w)}

\* C12: a call routed through a chain of two relays, each set up with its
\* next hop only, to a method that returns is resolved at the caller that
\* made it with the executor's result when its response arrives before the
\* timer fires, and the response travels the request's hops in reverse order.
C12_ChainResolvesInReverse ==
    /\ \A m \in InFlight :
          IsRequest(m.data) =>
              \E w \in Callers : <<m.source, m.to>> \in RequestHops(w)
    /\ \A m \in InFlight :
          IsResponse(m.data) =>
              \E w \in Callers :
                  /\ <<m.source, m.to>> \in ResponseHops(w)
                  /\ (m.to \in Callers /\ m.data.method = "echo") => MadeBy(m.to, m.data)
    /\ \A wi \in CallsMade :
          CallAt(wi).by = "response" =>
              /\ CallAt(wi).outcome = "resolved"
              /\ CallAt(wi).value = Produced(CallAt(wi))

\* The origin a relay of the relay window uses to forward a response with
\* this call id.
OriginUsed(table, commIndex) == LookupSource(table, [commIndex |-> commIndex])

\* The relay of the first channel records a request in this step.
FirstRelayRecords ==
    \E m \in InFlight :
        /\ Dispatched(m)
        /\ m.to = RelayWindow
        /\ RelayAccepts(Channel, m.data)
        /\ IsRequest(m.data)

\* C13: the origin table belongs to one relay instance: with two relays set
\* up in the same window on different channels, the origin the first relay
\* uses for a call id changes only when the first relay itself records a
\* request, never when the other relay records one or is set up.
C13_OriginTablePerRelay ==
    [][~FirstRelayRecords =>
          \A commIndex \in 0..MaxSetupCalls :
              OriginUsed(commIndexSources'[RelayWindow], commIndex)
                 = OriginUsed(commIndexSources[RelayWindow], commIndex)]_vars

\* C14: once callCrossWindowExecutor has returned, a call has a registered
\* listener and an armed timer exactly when it is unsettled, so a response
\* that arrives after the timeout is matched by nothing and changes no state
\* of the caller.
C14_ListenerAndTimerWhileUnsettled ==
    /\ [](\A wi \in CallsMade :
             /\ CallAt(wi).listener <=> CallAt(wi).outcome = "pending"
             /\ CallAt(wi).decayTimeout <=> CallAt(wi).outcome = "pending")
    /\ [][\A m \in InFlight :
             (/\ Dispatched(m)
              /\ m.to \in Callers
              /\ \A i \in DOMAIN calls[m.to] : calls[m.to][i].by = "timeout") =>
                 /\ calls' = calls
                 /\ CROSS_COMM_INDEX' = CROSS_COMM_INDEX
                 /\ inflight' = inflight (-) One(m)]_vars

\* The only call made has timed out, and its response, which the relay had a
\* recorded origin for, has since been delivered to the caller.
C14_Witness ==
    \E wi \in CallsMade :
        /\ TotalCalls = 1
        /\ CallAt(wi).by = "timeout"
        /\ ~CallAt(wi).listener
        /\ ~CallAt(wi).decayTimeout
        /\ SourceKey([commIndex |-> CallAt(wi).callIndex])
              \in DOMAIN commIndexSources[RelayWindow]
        /\ inflight = EmptyBag

\* C15: the call-id counter of a caller window starts at 0 and every call of
\* the window takes the next value: the call ids of a window are strictly
\* increasing in call order and no two calls of the window, concurrent or
\* not and on whatever channel, have the same call id.
C15_CallIdsIncrease ==
    \A w \in Callers :
        /\ \A i \in DOMAIN calls[w] : calls[w][i].callIndex = i - 1
        /\ \A i, j \in DOMAIN calls[w] :
              i < j => calls[w][i].callIndex < calls[w][j].callIndex
        /\ Len(calls[w]) > 0 => CROSS_COMM_INDEX[w] = Len(calls[w])

\* Two calls of one window on different channels, both unsettled.
C15_Witness ==
    \E w \in Callers :
        /\ Len(calls[w]) = 2
        /\ calls[w][1].commChannel # calls[w][2].commChannel
        /\ calls[w][1].outcome = "pending"
        /\ calls[w][2].outcome = "pending"
        /\ calls[w][1].callIndex = 0
        /\ calls[w][2].callIndex = 1

\* C16: the executor acts only on requests on its own channel that carry a
\* call id: for every other message (a request on another channel, a
\* response, a message without call id, empty data) it invokes no method and
\* posts no response.
C16_ExecutorIgnoresOtherMessages ==
    [][\A m \in InFlight :
          (/\ Dispatched(m)
           /\ m.to = ExecutorWindow
           /\ ~(/\ DataTruthy(m.data)
                /\ IsRequest(m.data)
                /\ Has(m.data, "commChannel") /\ m.data.commChannel = Channel
                /\ Has(m.data, "commIndex"))) =>
              /\ inflight' = inflight (-) One(m)
              /\ jobs' = jobs]_vars

\* An unrelated message was posted to the executor window and has been
\* dispatched there, and nothing is in flight.
C16_Witness ==
    /\ strays = 1
    /\ TotalCalls = 0
    /\ inflight = EmptyBag
    /\ jobs = EmptyBag

\* C19: a relay that receives a response on its channel whose call id has no
\* recorded origin forwards nothing and leaves its origin table unchanged,
\* and a message on another channel or without a commIndex is neither
\* forwarded nor recorded.
C19_RelayDropsUnknown ==
    [][\A m \in InFlight :
          (/\ Dispatched(m)
           /\ m.to = RelayWindow
           /\ \/ /\ IsResponse(m.data)
                 /\ Has(m.data, "commChannel") /\ m.data.commChannel = Channel
                 /\ Has(m.data, "commIndex")
                 /\ ToString(m.data.commIndex) \notin DOMAIN commIndexSources[RelayWindow]
              \/ ~Has(m.data, "commChannel")
              \/ Has(m.data, "commChannel") /\ m.data.commChannel # Channel
              \/ ~Has(m.data, "commIndex")) =>
              /\ inflight' = inflight (-) One(m)
              /\ commIndexSources' = commIndexSources]_vars

\* An unrelated message was posted to the relay window and has been
\* dispatched there while the request of the only call was still on its way
\* to the relay, and the origin table is still empty.
C19_Witness ==
    /\ strays = 1
    /\ \A m \in InFlight : m.source # Stranger
    /\ TotalCalls = 1
    /\ \E m \in InFlight : m.to = RelayWindow /\ IsRequest(m.data)
    /\ BagCardinality(inflight) = 1
    /\ commIndexSources[RelayWindow] = <<>>

\* C18: a relay never removes entries of its origin table: forwarding a
\* response leaves the entry of its call id as it is, and through requests,
\* responses and caller timeouts every recorded call id stays mapped to an
\* origin.
C18_OriginTableNeverShrinks ==
    [][/\ \A key \in DOMAIN commIndexSources[RelayWindow] :
             /\ key \in DOMAIN commIndexSources'[RelayWindow]
             /\ commIndexSources'[RelayWindow][key] \in Callers
       /\ \A m \in InFlight :
             (Dispatched(m) /\ m.to = RelayWindow /\ IsResponse(m.data)) =>
                 commIndexSources' = commIndexSources]_vars

\* One call of a window has settled with its response and another has timed
\* out, nothing is in flight any more, and the relay still holds the origin
\* of both call ids.
C18_Witness ==
    \E w \in Callers :
        /\ Len(calls[w]) = 2
        /\ TotalCalls = 2
        /\ calls[w][1].by = "response"
        /\ calls[w][2].by = "timeout"
        /\ inflight = EmptyBag
        /\ commIndexSources[RelayWindow] = ("0" :> w) @@ ("1" :> w)

\* The request of a call is in flight to some window.
RequestInFlight(call) ==
    \E m \in InFlight :
        m.data = RequestMessage(call.callIndex, call.commChannel,
                                call.method, call.argArray)

\* A response that the listener of the call would take is in flight to the
\* window of the call.
ResponseDeliverable(w, call) ==
    \E m \in InFlight :
        /\ m.to = w
        /\ IsResponse(m.data)
        /\ Has(m.data, "commIndex") /\ m.data.commIndex = call.callIndex
        /\ Has(m.data, "commChannel") /\ m.data.commChannel = call.commChannel
        /\ Has(m.data, "method") /\ m.data.method = call.method

\* C17: callCrossWindowExecutor registers the listener of a call before it
\* posts the request: whenever the request of a call is in flight or its
\* response can be delivered, the listener of the call is registered, unless
\* the call has settled already.
C17_ListenerBeforeRequest ==
    \A wi \in CallsMade :
        (RequestInFlight(CallAt(wi)) \/ ResponseDeliverable(wi[1], CallAt(wi))) =>
            CallAt(wi).listener \/ CallAt(wi).outcome # "pending"

\* The response of a call is already on its way to the caller window while
\* callCrossWindowExecutor has not yet armed the timer, and the listener of
\* the call is registered.
C17_Witness ==
    \E w \in Callers :
        /\ pc[w] = Len(CallSteps)
        /\ ResponseDeliverable(w, calls[w][Len(calls[w])])
        /\ calls[w][Len(calls[w])].listener
        /\ ~calls[w][Len(calls[w])].decayTimeout
        /\ calls[w][Len(calls[w])].outcome = "pending"

====
